---- MODULE Spec2Model ----
(***************************************************************************)
(* RMSC screening pipeline: Layer 1 exclusion screening                    *)
(* (02_layer1_exclusion.py), Layer 2 inclusion verification                *)
(* (03_layer2_inclusion.py), the retry of failed Claude calls              *)
(* (retry_claude_errors.py), the merge (04_merge_results.py) and the token *)
(* logger (token_logger.py).                                               *)
(*                                                                         *)
(* The specifications share the variables:                                 *)
(*   SpecMerge   04_merge_results.py main() on an arbitrary input CSV:     *)
(*               the merged file, the summary and the review files         *)
(*   SpecScreen  one call of screen_record_layer1 / screen_with_gemini_pro *)
(*               / screen_with_claude against arbitrary API outcomes       *)
(*               (SpecScreenFair: the call keeps running)                  *)
(*   SpecL1      process_screening, with interrupts and restarts           *)
(*   SpecL2      process_layer2, with interrupts and restarts, followed by *)
(*               the merge of the file it wrote                            *)
(*   SpecStages  either stage on files whose rows carry a record_id        *)
(*   SpecBatch   the batch loops of the stages and of retry_claude_errors, *)
(*               for any batch size                                        *)
(*   SpecRetry   retry_claude_errors, run repeatedly on a file             *)
(*               process_layer2 wrote                                      *)
(*   SpecLogger  log_usage calls of several threads on one TokenLogger     *)
(*   SpecSingleton  get_logger / reset_logger and the usage logged through *)
(*               the loggers they return                                   *)
(***************************************************************************)
EXTENDS Integers, Naturals, Sequences, FiniteSets, TLC

VARIABLES
    mg,     \* 04_merge_results.py: the input dataframe and the merged one
    scr,    \* one call of a screen_* function: its loop state and result
    l1,     \* process_screening: the running (or finished) invocation
    fs1,    \* Layer 1 files: the input CSV and the output CSV
    l2,     \* process_layer2: the running (or finished) invocation
    fs2,    \* Layer 2 files: the input CSV (Layer 1 results) and the output CSV
    tl,     \* token_logger.py: _global_logger, the TokenLogger objects, the threads
    bt,     \* the batch loop of a stage: its arguments and the batches it has made
    rt      \* retry_claude_errors: layer2_results.csv and the running invocation

vars == <<mg, scr, l1, fs1, l2, fs2, tl, bt, rt>>

(***************************************************************************)
(* Values of cells.  NaN is what pandas holds for an empty cell (None put  *)
(* into a column is written as an empty cell and read back as NaN); None   *)
(* is what row.get returns for a column the dataframe does not have.       *)
(***************************************************************************)
NaN == "NaN"
None == "None"

\* A CSV file: whether it exists, and the dataframe read_csv gives for it.
NoFile == [exists |-> FALSE, df |-> <<>>]
File(df) == [exists |-> TRUE, df |-> df]
NoIndex == 0 - 1        \* an index argument that is None, a loop variable not yet bound

\* Python's == on two cell values: float nan is unequal to everything,
\* itself included; None == None; strings compare by value.
PyEq(a, b) == a # NaN /\ b # NaN /\ a = b

\* pandas notna(): None and NaN are both missing.
NotNa(v) == v # NaN /\ v # None

\* row.get(col): the cell, or None when the dataframe has no such column.
RowGet(row, col) == IF col \in DOMAIN row THEN row[col] ELSE None

\* to_csv followed by read_csv on one cell: None, NaN and the empty string
\* are all written as an empty field, which reads back as NaN.
CsvCell(v) == IF v = None \/ v = NaN \/ v = "" THEN NaN ELSE v

\* to_csv(index=False) followed by read_csv on a dataframe.
CsvRoundTrip(df) == [i \in DOMAIN df |-> [c \in DOMAIN df[i] |-> CsvCell(df[i][c])]]

Range(s) == {s[i] : i \in DOMAIN s}

Min(a, b) == IF a < b THEN a ELSE b

\* The record_id of the i-th record of a CSV file.
RecordId(i) == "r" \o ToString(i)

\* The members of a set of integers within lo..hi, in ascending order.
RECURSIVE Ascending(_, _, _)
Ascending(set, lo, hi) ==
    IF lo > hi THEN <<>>
    ELSE (IF lo \in set THEN <<lo>> ELSE <<>>) \o Ascending(set, lo + 1, hi)

\* Python's range(a, b) as a list, and list[a:b].
IndexRange(a, b) == [k \in 1..(b - a) |-> a + k - 1]
Slice(list, a, b) == SubSeq(list, a + 1, Min(b, Len(list)))

\* batch_end = min(batch_start + batch_size, n)   (02:261, 03:438, retry:72)
BatchEnd(batch_start, batch_size, n) == Min(batch_start + batch_size, n)

\* num_batches = (n + batch_size - 1) // batch_size   (03:434, retry:68)
NumBatches_floor(n, batch_size) == n \div batch_size

NumBatches(n, batch_size) == (n + batch_size - 1) \div batch_size

RECURSIVE Pow2(_)
Pow2(n) == IF n = 0 THEN 1 ELSE 2 * Pow2(n - 1)

(***************************************************************************)
(* Bounds of the model.                                                    *)
(***************************************************************************)
MaxMergeRows == 2       \* rows of the CSV given to the merge in SpecMerge
MaxRetriesArg == 4      \* max_retries ranges over 0..MaxRetriesArg in SpecScreen
MaxRetryDelay == 2      \* retry_delay ranges over 1..MaxRetryDelay in SpecScreen
NumRecords == 3         \* rows of the CSV screened in SpecL1 and SpecL2
MaxRuns == 2            \* invocations of a stage on the same files
NumThreads == 2         \* threads that use the token logger
MaxLogCalls == 3        \* log_usage calls made on a logger, all threads together
MaxResets == 1          \* reset_logger calls
MaxBatchItems == 4      \* rows of the dataframe whose batches SpecBatch walks
MaxBatchSize == 3       \* batch_size ranges over 1..MaxBatchSize in SpecBatch
MaxRetryRows == 2       \* rows of layer2_results.csv in SpecRetry
MaxRetryRuns == 2       \* invocations of retry_claude_errors on the same file

(***************************************************************************)
(* Program constants.                                                      *)
(***************************************************************************)
DefaultMaxRetries == 3  \* max_retries of the three screen_* functions
DefaultRetryDelay == 2  \* retry_delay of screen_record_layer1
BatchSize == 2          \* batch_size / batch_parallel_size: the runs are started with --batch 2
RetryBatchSize == 10    \* batch_size of retry_claude_errors, its default

(***************************************************************************)
(* 04_merge_results.py                                                     *)
(***************************************************************************)
determine_final_decision_swapped(row) ==
    IF PyEq(RowGet(row, "L1_decision"), "exclude")
    THEN [auto_decision |-> "exclude", review_priority |-> "none", review_reason |-> None]
    ELSE LET pro_decision == RowGet(row, "L2_pro_decision")
             opus_decision == RowGet(row, "L2_opus_decision")
         IN  IF PyEq(pro_decision, opus_decision)
             THEN IF PyEq(pro_decision, "include")
                  THEN [auto_decision |-> "include", review_priority |-> "low",
                        review_reason |-> "Both models include - verify"]
                  ELSE [auto_decision |-> "exclude", review_priority |-> "high",
                        review_reason |-> "Both models exclude"]
             ELSE [auto_decision |-> "uncertain", review_priority |-> "high",
                   review_reason |-> "Disagreement"]

determine_final_decision(row) ==
    IF PyEq(RowGet(row, "L1_decision"), "exclude")
    THEN [auto_decision |-> "exclude", review_priority |-> "none", review_reason |-> None]
    ELSE LET pro_decision == RowGet(row, "L2_pro_decision")
             opus_decision == RowGet(row, "L2_opus_decision")
         IN  IF PyEq(pro_decision, opus_decision)
             THEN IF PyEq(pro_decision, "include")
                  THEN [auto_decision |-> "include", review_priority |-> "high",
                        review_reason |-> "Both models include - verify"]
                  ELSE [auto_decision |-> "exclude", review_priority |-> "low",
                        review_reason |-> "Both models exclude"]
             ELSE [auto_decision |-> "uncertain", review_priority |-> "high",
                   review_reason |-> "Disagreement"]

\* main(), lines 198-213: the decisions become columns of the dataframe, next
\* to the empty human-review columns and final_decision = auto_decision.
MergeRow(row) ==
    LET d == determine_final_decision(row)
    IN  row @@ [auto_decision |-> d.auto_decision,
                review_priority |-> d.review_priority,
                review_reason |-> d.review_reason,
                human_decision |-> None,
                resolution_note |-> None,
                final_decision |-> d.auto_decision]

MergeFrame_dropexcluded(df) ==
    [i \in {j \in DOMAIN df : df[j]["L1_decision"] # "exclude"} |-> MergeRow(df[i])]

MergeFrame(df) == [i \in DOMAIN df |-> MergeRow(df[i])]

\* The columns the merge adds (lines 206-213).
MergeColumns == {"auto_decision", "review_priority", "review_reason", "human_decision",
                 "resolution_note", "final_decision"}

\* Python's max
Max(a, b) == IF a > b THEN a ELSE b

\* (df[col] == cell): the indices of the rows for which the mask is True.
Mask(df, col, cell) == {i \in DOMAIN df : PyEq(df[i][col], cell)}

\* df[mask]: the rows of the mask, in the order of the dataframe.
FilterRows(df, mask) ==
    LET kept == Ascending(mask, 0, Cardinality(DOMAIN df))
    IN  [k \in 1..Len(kept) |-> df[kept[k]]]

\* df[cols_to_keep] with cols_to_keep = [c for c in cols_to_keep if c in df.columns]
KeepColumns(df, cols_to_keep) ==
    [k \in DOMAIN df |-> [c \in cols_to_keep \cap DOMAIN df[k] |-> df[k][c]]]

\* generate_summary, lines 66-147.  The Layer 2 statistics index the dataframe
\* with df['L2_pro_decision'] and df['L2_opus_decision'] when a record passed
\* Layer 1 (lines 78-82): a KeyError when the dataframe lacks one of them.
NoSummary == [written |-> FALSE, l2_both_exclude |-> 0, high_priority |-> 0,
              low_priority |-> 0]

SummaryRaises(df) ==
    /\ Cardinality(Mask(df, "L1_decision", "pass")) > 0
    /\ \E i \in DOMAIN df : ~({"L2_pro_decision", "L2_opus_decision"} \subseteq DOMAIN df[i])

generate_summary(df) ==
    LET l2_mask == Mask(df, "L1_decision", "pass")
        l2_records == Cardinality(l2_mask)
        l2_both_exclude ==
            IF l2_records > 0
            THEN Cardinality(Mask(df, "L2_pro_decision", "exclude")
                             \cap Mask(df, "L2_opus_decision", "exclude") \cap l2_mask)
            ELSE 0
        final_include == Cardinality(Mask(df, "auto_decision", "include"))
        final_uncertain == Cardinality(Mask(df, "auto_decision", "uncertain"))
    IN  [written |-> TRUE,
         l2_both_exclude |-> l2_both_exclude,
         high_priority |-> final_include + final_uncertain,
         low_priority |-> l2_both_exclude \div 10]

\* export_for_review, lines 150-186.  sample is the choice
\* low_priority.sample(n=sample_size, random_state=42) makes: sample[k] is the
\* position in low_priority of the k-th row of the sample.
HighColumns == {"record_id", "pmid", "title", "abstract", "year", "journal",
                "L1_decision", "L1_exclusion_tags",
                "L2_pro_decision", "L2_pro_confidence", "L2_pro_reasoning",
                "L2_opus_decision", "L2_opus_confidence", "L2_opus_reasoning",
                "auto_decision", "review_reason"}
LowColumns == {"record_id", "pmid", "title", "abstract",
               "L2_pro_decision", "L2_pro_reasoning",
               "L2_opus_decision", "L2_opus_reasoning", "auto_decision"}

\* line 173
SampleSize(n) == Min(n, Max(10, n \div 10))

LowPriority(df) == FilterRows(df, Mask(df, "review_priority", "low"))

Samples(n) ==
    {sample \in [1..SampleSize(n) -> 1..n] :
        \A j, k \in DOMAIN sample : j # k => sample[j] # sample[k]}

export_for_review(df, sample) ==
    LET high_priority == FilterRows(df, Mask(df, "review_priority", "high"))
        low_priority == LowPriority(df)
    IN  [high |-> IF Len(high_priority) > 0
                  THEN File(KeepColumns(high_priority, HighColumns)) ELSE NoFile,
         low_sample |-> IF Len(low_priority) > 0
                        THEN File(KeepColumns([k \in DOMAIN sample |-> low_priority[sample[k]]],
                                              LowColumns))
                        ELSE NoFile]

\* mg.out is <output_prefix>.csv (written at line 217, before the summary),
\* mg.summary what <output_prefix>_summary.txt announces, mg.high and
\* mg.low_sample the two review files; mg.raised names the exception main()
\* ended with.
MgIdle == [pc |-> "idle", df |-> <<>>, out |-> <<>>, raised |-> None,
           summary |-> NoSummary, high |-> NoFile, low_sample |-> NoFile]

\* main(), lines 198-234, on the dataframe read_csv gave.
MergeRun(df, sample) ==
    LET out == MergeFrame(df)
        files == export_for_review(out, sample)
    IN  IF SummaryRaises(out)
        THEN [MgIdle EXCEPT !.pc = "done", !.df = df, !.out = out, !.raised = "KeyError"]
        ELSE [MgIdle EXCEPT !.pc = "done", !.df = df, !.out = out,
                            !.summary = generate_summary(out),
                            !.high = files.high, !.low_sample = files.low_sample]

\* The CSV files SpecMerge hands to the merge: every row has a record_id,
\* L1_decision and any subset of the three Layer 2 decision columns.
L1Cells == {"exclude", "pass", NaN}
L2Cells == {"include", "exclude", NaN}
L2DecisionCols == {"L2_pro_decision", "L2_opus_decision", "L2_sonnet_decision"}
MergeRows(cols) ==
    {[c \in cols \cup {"L1_decision"} |-> IF c = "L1_decision" THEN r[1] ELSE r[2][c]] :
        r \in L1Cells \X [cols -> L2Cells]}
WithRecordIds(df) == [i \in DOMAIN df |-> df[i] @@ [record_id |-> RecordId(i)]]
MergeInputs ==
    UNION {UNION {[1..n -> MergeRows(cols)] : n \in 1..MaxMergeRows} :
           cols \in SUBSET L2DecisionCols}

\* main(): pd.read_csv(input_csv), the decisions, the merged file, the summary
\* and the review files.
MergeMain ==
    /\ mg.pc = "loaded"
    /\ \E sample \in Samples(Len(LowPriority(MergeFrame(mg.df)))) :
         mg' = MergeRun(mg.df, sample)
    /\ UNCHANGED <<scr, l1, fs1, l2, fs2, tl, bt, rt>>

(***************************************************************************)
(* What one API attempt can yield.  kind "exception": the SDK call, or any *)
(* statement of the try body, raised (this includes a JSON value that is   *)
(* no object, on which `in` or .get raises).  kind "text": the response    *)
(* parsed to nothing, or to an object without a "decision" key.  kind      *)
(* "json": an object with a "decision" key.  The Gemini models are built   *)
(* with a response_schema whose decision is an enum (02:56, 03:80); the    *)
(* Claude call has no schema, so its decision can be any string.           *)
(***************************************************************************)
InclusionTags == {"INC-1", "INC-2", "INC-3", "INC-4", "INC-5"}

ApiFailure(k) == [kind |-> k, decision |-> None, tags |-> <<>>, status |-> None]
ApiException == ApiFailure("exception")
ApiNoDecision == ApiFailure("text")
ApiVerdict(d, t, st) == [kind |-> "json", decision |-> d, tags |-> t, status |-> st]

Layer1Outcomes ==
    {ApiException, ApiNoDecision,
     ApiVerdict("exclude", <<"EXC-1">>, None), ApiVerdict("pass", <<>>, None)}
GeminiProOutcomes ==
    {ApiException, ApiNoDecision,
     ApiVerdict("include", <<>>, "yes"), ApiVerdict("exclude", <<>>, "no")}
ClaudeOutcomes ==
    GeminiProOutcomes \cup {ApiVerdict("maybe", <<>>, None)}

ApiOutcomes(fn) ==
    CASE fn = "layer1" -> Layer1Outcomes
      [] fn = "gemini_pro" -> GeminiProOutcomes
      [] fn = "claude" -> ClaudeOutcomes

\* What one pass through the body of `for attempt in range(max_retries)` does.
Continue(secs) == [next |-> "continue", sleep |-> secs, result |-> None]
Return(r) == [next |-> "return", sleep |-> 0, result |-> r]
Raise == [next |-> "raise", sleep |-> 0, result |-> None]

(***************************************************************************)
(* 02_layer1_exclusion.py screen_record_layer1                             *)
(***************************************************************************)
\* raw_response is the text the API returned on the attempt the result comes
\* from: here the verdict it held, None on the paths that set it to None, and
\* "no decision" for a text without one.
Layer1Result(d, tags, reasoning, err, raw) ==
    [decision |-> d, exclusion_tags |-> tags, reasoning |-> reasoning, error |-> err,
     raw_response |-> raw]

\* lines 116-177, one attempt
Layer1Attempt_reraise(attempt, o, max_retries, retry_delay) ==
    IF o.kind = "json"
    THEN Return(Layer1Result(o.decision, o.tags, "model reasoning", None, o.decision))
    ELSE IF o.kind = "text"
    THEN IF attempt < max_retries - 1
         THEN Continue(retry_delay)
         ELSE Return(Layer1Result("pass", <<>>, "JSON parsing failed", "Invalid JSON",
                                  "no decision"))
    ELSE IF attempt < max_retries - 1
         THEN Continue(retry_delay * (attempt + 1))
         ELSE Raise

Layer1Attempt_failexclude(attempt, o, max_retries, retry_delay) ==
    IF o.kind = "json"
    THEN Return(Layer1Result(o.decision, o.tags, "model reasoning", None, o.decision))
    ELSE IF o.kind = "text"
    THEN IF attempt < max_retries - 1
         THEN Continue(retry_delay)
         ELSE Return(Layer1Result("pass", <<>>, "JSON parsing failed", "Invalid JSON",
                                  "no decision"))
    ELSE IF attempt < max_retries - 1
         THEN Continue(retry_delay * (attempt + 1))
         ELSE Return(Layer1Result("exclude", <<>>, None, "str(e)", None))

Layer1Attempt(attempt, o, max_retries, retry_delay) ==
    IF o.kind = "json"
    THEN Return(Layer1Result(o.decision, o.tags, "model reasoning", None, o.decision))
    ELSE IF o.kind = "text"
    THEN IF attempt < max_retries - 1
         THEN Continue(retry_delay)
         ELSE Return(Layer1Result("pass", <<>>, "JSON parsing failed", "Invalid JSON",
                                  "no decision"))
    ELSE IF attempt < max_retries - 1
         THEN Continue(retry_delay * (attempt + 1))
         ELSE Return(Layer1Result("pass", <<>>, None, "str(e)", None))

\* lines 179-187, after the loop
Layer1Exhausted == Layer1Result("pass", <<>>, None, "Max retries exceeded", None)

(***************************************************************************)
(* 03_layer2_inclusion.py screen_with_gemini_pro, screen_with_claude       *)
(***************************************************************************)
Layer2Result(d, conf, reasoning, check, err) ==
    [decision |-> d, confidence |-> conf, reasoning |-> reasoning,
     inclusion_check |-> check, error |-> err]

\* extract_inclusion_result, lines 126-144
extract_inclusion_result(o) ==
    Layer2Result(o.decision, "high", "model reasoning",
                 [tag \in InclusionTags |-> IF o.status = None THEN "unclear" ELSE o.status],
                 None)

Layer2Fallback(reasoning, err) ==
    Layer2Result("include", "low", reasoning, [tag \in InclusionTags |-> "unclear"], err)

\* screen_with_gemini_pro lines 158-209 and screen_with_claude lines 233-296:
\* the two loops differ only in the call they make and in what they print.
Layer2Attempt_exclude(attempt, o, max_retries) ==
    IF o.kind = "json"
    THEN Return(extract_inclusion_result(o))
    ELSE IF o.kind = "text"
    THEN IF attempt < max_retries - 1 THEN Continue(1) ELSE Continue(0)
    ELSE IF attempt < max_retries - 1
         THEN Continue(Pow2(attempt))
         ELSE Return(Layer2Result("exclude", "low", None,
                                  [tag \in InclusionTags |-> "unclear"], "str(e)"))

Layer2Attempt_retryjson(attempt, o, max_retries) ==
    IF o.kind = "json"
    THEN IF attempt < max_retries - 1
         THEN Continue(0)
         ELSE Return(extract_inclusion_result(o))
    ELSE IF o.kind = "text"
    THEN IF attempt < max_retries - 1 THEN Continue(1) ELSE Continue(0)
    ELSE IF attempt < max_retries - 1
         THEN Continue(Pow2(attempt))
         ELSE Return(Layer2Fallback(None, "str(e)"))

Layer2Attempt(attempt, o, max_retries) ==
    IF o.kind = "json"
    THEN Return(extract_inclusion_result(o))
    ELSE IF o.kind = "text"
    THEN IF attempt < max_retries - 1 THEN Continue(1) ELSE Continue(0)
    ELSE IF attempt < max_retries - 1
         THEN Continue(Pow2(attempt))
         ELSE Return(Layer2Fallback(None, "str(e)"))

\* lines 211-219 and 298-306, after the loop
Layer2Exhausted == Layer2Fallback("Parsing failed", "Max retries")

ScreenAttempt(fn, attempt, o, max_retries, retry_delay) ==
    IF fn = "layer1"
    THEN Layer1Attempt(attempt, o, max_retries, retry_delay)
    ELSE Layer2Attempt(attempt, o, max_retries)

ScreenExhausted(fn) == IF fn = "layer1" THEN Layer1Exhausted ELSE Layer2Exhausted

\* The whole call, for the API outcomes outs[1], outs[2], ... of its attempts:
\* whether it returned or raised, the returned dict and the number of API calls
\* it made.
RECURSIVE RunScreen(_, _, _, _, _)
RunScreen(fn, outs, attempt, max_retries, retry_delay) ==
    IF attempt >= max_retries
    THEN [status |-> "returned", value |-> ScreenExhausted(fn), calls |-> attempt]
    ELSE LET s == ScreenAttempt(fn, attempt, outs[attempt + 1], max_retries, retry_delay)
         IN  CASE s.next = "continue" ->
                    RunScreen(fn, outs, attempt + 1, max_retries, retry_delay)
               [] s.next = "return" ->
                    [status |-> "returned", value |-> s.result, calls |-> attempt + 1]
               [] s.next = "raise" ->
                    [status |-> "raised", value |-> None, calls |-> attempt + 1]

(***************************************************************************)
(* SpecScreen: one call, attempt by attempt.                               *)
(***************************************************************************)
ScrIdle == [fn |-> "none", max_retries |-> 0, retry_delay |-> 0, attempt |-> 0,
            calls |-> 0, sleeps |-> <<>>, hist |-> <<>>, status |-> "idle",
            result |-> None]

ScreenFns == {"layer1", "gemini_pro", "claude"}

\* One iteration of the loop: the API call and what the body does with it.
ScreenCall ==
    /\ scr.status = "running"
    /\ scr.attempt < scr.max_retries
    /\ \E o \in ApiOutcomes(scr.fn) :
         LET s == ScreenAttempt(scr.fn, scr.attempt, o, scr.max_retries, scr.retry_delay)
         IN  scr' = [scr EXCEPT
                 !.calls = @ + 1,
                 !.hist = Append(@, o.kind),
                 !.attempt = IF s.next = "continue" THEN @ + 1 ELSE @,
                 !.sleeps = IF s.next = "continue" /\ s.sleep > 0
                            THEN Append(@, s.sleep) ELSE @,
                 !.status = CASE s.next = "continue" -> "running"
                              [] s.next = "return" -> "returned"
                              [] s.next = "raise" -> "raised",
                 !.result = s.result]
    /\ UNCHANGED <<mg, l1, fs1, l2, fs2, tl, bt, rt>>

\* range(max_retries) is used up: the statements after the loop.
ScreenLoopEnd ==
    /\ scr.status = "running"
    /\ scr.attempt >= scr.max_retries
    /\ scr' = [scr EXCEPT !.status = "returned", !.result = ScreenExhausted(scr.fn)]
    /\ UNCHANGED <<mg, l1, fs1, l2, fs2, tl, bt, rt>>

(***************************************************************************)
(* 02_layer1_exclusion.py process_screening                                *)
(***************************************************************************)
\* str(row.get('title', '')): an empty cell is NaN, and str(nan) is 'nan'.
PyStr(v) == IF v = NaN THEN "nan" ELSE v

\* str.strip(): a title of whitespace only strips to the empty string.
Strip(v) == IF v = "   " THEN "" ELSE v

TitleCells == {"A title", "   ", NaN}

Indices == 0..(NumRecords - 1)

\* lines 214-229: the result columns a dataframe read from the input gets.
\* api_verdict is a history column of the model, not of the program: the
\* verdict the API gave on the attempt the stored result comes from.
L1Columns == {"L1_decision", "L1_exclusion_tags", "L1_reasoning", "L1_error",
              "api_verdict"}
L1Fresh(input) == [i \in DOMAIN input |-> input[i] @@ [c \in L1Columns |-> None]]

\* existing_df['L1_decision'].notna().sum()
Processed(df) == Cardinality({i \in DOMAIN df : NotNa(df[i]["L1_decision"])})

\* lines 231-245: the dataframe and the index the run starts with
L1Start(input, output, resume_from, answer) ==
    IF resume_from # NoIndex
    THEN [df |-> L1Fresh(input), start_idx |-> resume_from]
    ELSE IF output.exists /\ Processed(output.df) > 0 /\ answer = "y"
    THEN [df |-> output.df, start_idx |-> Processed(output.df)]
    ELSE [df |-> L1Fresh(input), start_idx |-> 0]

\* lines 274-280: a record without a title, no API call
L1NoTitle(row) ==
    [row EXCEPT !["L1_decision"] = "pass", !["L1_reasoning"] = "No title available"]

\* ','.join(tags) if tags else ''
JoinTags(tags) == IF tags = <<>> THEN "" ELSE tags[1]

\* lines 291-299: the result of a future written into its row
L1Store(row, result) ==
    [row EXCEPT !["L1_decision"] = result.decision,
                !["L1_exclusion_tags"] = JoinTags(result.exclusion_tags),
                !["L1_reasoning"] = result.reasoning,
                !["L1_error"] = result.error,
                !["api_verdict"] = result.raw_response]

\* A future that has not resolved yet.
Pending == [status |-> "pending", value |-> None]

L1Idle == [pc |-> "idle", df |-> <<>>, start_idx |-> 0, resume_from |-> NoIndex,
           pos |-> 0, batch_start |-> NoIndex, futures |-> <<>>, results |-> <<>>,
           next |-> 1, run |-> 0, resumed |-> FALSE]

Fs1Idle == [input |-> <<>>, output |-> NoFile, hint |-> NoIndex]

total_records == NumRecords

\* process_screening is started: `python 02_layer1_exclusion.py in out`, or
\* with the `--resume N` the interrupted run before it printed, and with the
\* user's answer to "Resume from last position?".
L1Begin ==
    /\ l1.pc \in {"idle", "exit"}
    /\ l1.run < MaxRuns
    /\ \E resume_from \in {NoIndex, fs1.hint}, answer \in {"y", "n"} :
         LET st == L1Start(fs1.input, fs1.output, resume_from, answer)
         IN  l1' = [L1Idle EXCEPT
                 !.pc = "loop", !.df = st.df, !.start_idx = st.start_idx,
                 !.resume_from = resume_from, !.pos = st.start_idx,
                 !.run = l1.run + 1,
                 !.resumed = (resume_from = NoIndex /\ st.start_idx > 0)]
    /\ UNCHANGED <<mg, scr, fs1, l2, fs2, tl, bt, rt>>

\* lines 260-283: the next batch; records without a title are settled at once,
\* the others are submitted to the pool.
L1Submit ==
    /\ l1.pc = "loop"
    /\ l1.pos < total_records
    /\ LET batch_start == l1.pos
           batch_end == BatchEnd(batch_start, BatchSize, total_records)
           batch_indices == batch_start..(batch_end - 1)
           blank == {idx \in batch_indices : Strip(PyStr(l1.df[idx]["title"])) = ""}
           submitted == batch_indices \ blank
       IN  l1' = [l1 EXCEPT
               !.pc = "collect",
               !.batch_start = batch_start,
               !.pos = batch_start + BatchSize,
               !.df = [i \in DOMAIN l1.df |->
                          IF i \in blank THEN L1NoTitle(l1.df[i]) ELSE l1.df[i]],
               !.futures = Ascending(submitted, batch_start, batch_end - 1),
               !.results = [idx \in submitted |-> Pending],
               !.next = 1]
    /\ UNCHANGED <<mg, scr, fs1, l2, fs2, tl, bt, rt>>

\* Every way a call of screen_record_layer1 with the default arguments can
\* end, over all API outcomes of its attempts.
Layer1Futures ==
    {LET r == RunScreen("layer1", outs, 0, DefaultMaxRetries, DefaultRetryDelay)
     IN  [status |-> r.status, value |-> r.value] :
     outs \in [1..DefaultMaxRetries -> Layer1Outcomes]}

\* A worker thread runs screen_record_layer1 for a submitted record.
L1Worker_writes ==
    /\ l1.pc = "collect"
    /\ \E idx \in DOMAIN l1.results :
         /\ l1.results[idx].status = "pending"
         /\ \E f \in Layer1Futures :
              l1' = [l1 EXCEPT !.results[idx] = f, !.df[idx] = L1Store(@, f.value)]
    /\ UNCHANGED <<mg, scr, fs1, l2, fs2, tl, bt, rt>>

L1Worker ==
    /\ l1.pc = "collect"
    /\ \E idx \in DOMAIN l1.results :
         /\ l1.results[idx].status = "pending"
         /\ \E f \in Layer1Futures : l1' = [l1 EXCEPT !.results[idx] = f]
    /\ UNCHANGED <<mg, scr, fs1, l2, fs2, tl, bt, rt>>

\* lines 286-312: the main thread takes the next future, in submission order,
\* and writes its result into the dataframe; when future.result() raises, the
\* handler records the message in L1_error.
L1Collect ==
    /\ l1.pc = "collect"
    /\ l1.next <= Len(l1.futures)
    /\ LET idx == l1.futures[l1.next]
       IN  /\ l1.results[idx].status # "pending"
           /\ l1' = [l1 EXCEPT
                   !.df[idx] = IF l1.results[idx].status = "raised"
                               THEN [@ EXCEPT !["L1_error"] = "str(e)"]
                               ELSE L1Store(@, l1.results[idx].value),
                   !.next = @ + 1]
    /\ UNCHANGED <<mg, scr, fs1, l2, fs2, tl, bt, rt>>

\* lines 314-319: the batch is done, df.to_csv(output_csv)
L1Save_nocheckpoint ==
    /\ l1.pc = "collect"
    /\ l1.next > Len(l1.futures)
    /\ l1' = [l1 EXCEPT !.pc = "loop"]
    /\ UNCHANGED <<mg, scr, fs1, l2, fs2, tl, bt, rt>>

L1Save ==
    /\ l1.pc = "collect"
    /\ l1.next > Len(l1.futures)
    /\ l1' = [l1 EXCEPT !.pc = "loop"]
    /\ fs1' = [fs1 EXCEPT !.output = File(CsvRoundTrip(l1.df))]
    /\ UNCHANGED <<mg, scr, l2, fs2, tl, bt, rt>>

\* lines 328-329: the loop is over, the final save
L1Finish ==
    /\ l1.pc = "loop"
    /\ l1.pos >= total_records
    /\ l1' = [l1 EXCEPT !.pc = "done"]
    /\ fs1' = [fs1 EXCEPT !.output = File(CsvRoundTrip(l1.df))]
    /\ UNCHANGED <<mg, scr, l2, fs2, tl, bt, rt>>

\* lines 321-326: KeyboardInterrupt anywhere in the try block.  Leaving the
\* `with ThreadPoolExecutor` block waits for the workers; results not yet
\* collected are dropped.  The handler saves the dataframe and prints
\* "Resume with: ... --resume {batch_start}".
L1Interrupt ==
    /\ l1.pc \in {"loop", "collect"}
    /\ l1' = [l1 EXCEPT !.pc = "exit"]
    /\ fs1' = [fs1 EXCEPT !.output = File(CsvRoundTrip(l1.df)), !.hint = l1.batch_start]
    /\ UNCHANGED <<mg, scr, l2, fs2, tl, bt, rt>>

(***************************************************************************)
(* 03_layer2_inclusion.py process_layer2                                   *)
(***************************************************************************)
\* tag.lower().replace("-", "")
TagKey(tag) == "inc" \o SubSeq(tag, 5, 5)

\* flatten_result, lines 309-327: the columns a result becomes
flatten_result(result, prefix) ==
    [col \in {prefix \o "_decision", prefix \o "_confidence", prefix \o "_reasoning",
              prefix \o "_error"} |->
        CASE col = prefix \o "_decision" -> result.decision
          [] col = prefix \o "_confidence" -> result.confidence
          [] col = prefix \o "_reasoning" -> result.reasoning
          [] col = prefix \o "_error" -> result.error]
    @@ [col \in {prefix \o "_" \o TagKey(tag) \o "_status" : tag \in InclusionTags} |->
        LET tag == CHOOSE t \in InclusionTags : col = prefix \o "_" \o TagKey(t) \o "_status"
        IN  result.inclusion_check[tag]]

\* lines 379-399: the columns process_layer2 adds to the dataframe it read
L2ResultColumns(prefix) ==
    {prefix \o "_decision", prefix \o "_confidence", prefix \o "_reasoning",
     prefix \o "_error"}
    \cup {prefix \o "_" \o TagKey(tag) \o "_status" : tag \in InclusionTags}
L2Columns ==
    L2ResultColumns("L2_pro") \cup L2ResultColumns("L2_sonnet")
    \cup {"L2_models_agree", "needs_human_review"}
L2Fresh(input) == [i \in DOMAIN input |-> input[i] @@ [c \in L2Columns |-> None]]

\* Python's str(bool), as to_csv writes it
PyBool(b) == IF b THEN "True" ELSE "False"

\* lines 455-475: the two results of a record written into its row
L2Store_disagreeonly(row, pro_result, sonnet_result) ==
    LET pro_flat == flatten_result(pro_result, "L2_pro")
        sonnet_flat == flatten_result(sonnet_result, "L2_sonnet")
        models_agree == pro_result.decision = sonnet_result.decision
        needs_review == ~models_agree
    IN  [c \in DOMAIN row |->
            IF c \in DOMAIN pro_flat THEN pro_flat[c]
            ELSE IF c \in DOMAIN sonnet_flat THEN sonnet_flat[c]
            ELSE IF c = "L2_models_agree" THEN PyBool(models_agree)
            ELSE IF c = "needs_human_review" THEN PyBool(needs_review)
            ELSE row[c]]

L2Store(row, pro_result, sonnet_result) ==
    LET pro_flat == flatten_result(pro_result, "L2_pro")
        sonnet_flat == flatten_result(sonnet_result, "L2_sonnet")
        models_agree == pro_result.decision = sonnet_result.decision
        needs_review == ~models_agree \/ pro_result.decision = "include"
                                      \/ sonnet_result.decision = "include"
    IN  [c \in DOMAIN row |->
            IF c \in DOMAIN pro_flat THEN pro_flat[c]
            ELSE IF c \in DOMAIN sonnet_flat THEN sonnet_flat[c]
            ELSE IF c = "L2_models_agree" THEN PyBool(models_agree)
            ELSE IF c = "needs_human_review" THEN PyBool(needs_review)
            ELSE row[c]]

\* lines 359-362: df[df['L1_decision'] == 'pass'].index.tolist()
PassIndices(df) ==
    Ascending({i \in DOMAIN df : PyEq(df[i]["L1_decision"], "pass")}, 0, NumRecords - 1)

\* Python's list[start:]
SliceFrom(list, start) == SubSeq(list, start + 1, Len(list))

\* lines 401-404, 433-434: where the run starts and what it processes
L2Start_all(df, resume_from) ==
    LET start_idx == IF resume_from # NoIndex THEN resume_from ELSE 0
        indices_to_process ==
            Ascending(DOMAIN df, 0, NumRecords - 1)
    IN  [start_idx |-> start_idx,
         indices_to_process |-> indices_to_process,
         num_batches |-> NumBatches(Len(indices_to_process), BatchSize)]

L2Start(df, resume_from) ==
    LET start_idx == IF resume_from # NoIndex THEN resume_from ELSE 0
        indices_to_process == SliceFrom(PassIndices(df), start_idx)
    IN  [start_idx |-> start_idx,
         indices_to_process |-> indices_to_process,
         num_batches |-> NumBatches(Len(indices_to_process), BatchSize)]

L2Idle == [pc |-> "idle", df |-> <<>>, start_idx |-> 0, resume_from |-> NoIndex,
           indices_to_process |-> <<>>, num_batches |-> 0, batch_num |-> 0,
           futures |-> <<>>, collected |-> {}, called |-> {}]

Fs2Idle == [input |-> <<>>, output |-> NoFile]

\* process_layer2 is started: `python 03_layer2_inclusion.py in out [--resume N]`.
L2Begin ==
    /\ l2.pc = "idle"
    /\ \E resume_from \in {NoIndex} \cup (0..NumRecords) :
         LET df == L2Fresh(fs2.input)
             st == L2Start(df, resume_from)
         IN  l2' = [L2Idle EXCEPT
                 !.pc = "loop", !.df = df, !.start_idx = st.start_idx,
                 !.resume_from = resume_from,
                 !.indices_to_process = st.indices_to_process,
                 !.num_batches = st.num_batches]
    /\ UNCHANGED <<mg, scr, l1, fs1, fs2, tl, bt, rt>>

\* lines 436-448: the next batch, every record of it submitted to the pool
L2Submit ==
    /\ l2.pc = "loop"
    /\ l2.batch_num < l2.num_batches
    /\ LET batch_start == l2.batch_num * BatchSize
           batch_end == BatchEnd(batch_start, BatchSize, Len(l2.indices_to_process))
           batch_indices == Slice(l2.indices_to_process, batch_start, batch_end)
       IN  l2' = [l2 EXCEPT !.pc = "collect",
                            !.futures = [idx \in Range(batch_indices) |-> Pending],
                            !.collected = {}]
    /\ UNCHANGED <<mg, scr, l1, fs1, fs2, tl, bt, rt>>

\* Every way a call of screen_with_gemini_pro / screen_with_claude with the
\* default max_retries can end when its failed attempts fail by an exception.
\* (The fallback after unparseable responses is the same dict but for the
\* texts of reasoning and error; SpecScreen covers it.)
Layer2Futures(fn) ==
    {RunScreen(fn, outs, 0, DefaultMaxRetries, 0).value :
        outs \in [1..DefaultMaxRetries -> ApiOutcomes(fn) \ {ApiNoDecision}]}
GeminiProFutures == Layer2Futures("gemini_pro")
ClaudeFutures == Layer2Futures("claude")

\* lines 413-416: a worker thread starts process_single_record and reads the
\* record's row from the dataframe.
L2WorkerRead ==
    /\ l2.pc = "collect"
    /\ \E idx \in DOMAIN l2.futures :
         /\ l2.futures[idx].status = "pending"
         /\ l2' = [l2 EXCEPT !.futures[idx].status = "running"]
    /\ UNCHANGED <<mg, scr, l1, fs1, fs2, tl, bt, rt>>

\* lines 418-429: process_single_record calls the two models and returns both
\* results.
L2Worker ==
    /\ l2.pc = "collect"
    /\ \E idx \in DOMAIN l2.futures :
         /\ l2.futures[idx].status = "running"
         /\ \E pro_result \in GeminiProFutures, sonnet_result \in ClaudeFutures :
              l2' = [l2 EXCEPT
                  !.futures[idx] = [status |-> "returned",
                                    value |-> <<pro_result, sonnet_result>>],
                  !.called = @ \cup {idx}]
    /\ UNCHANGED <<mg, scr, l1, fs1, fs2, tl, bt, rt>>

\* lines 450-475: the main thread takes a finished future (as_completed) and
\* writes both results into the record's row.
L2Collect ==
    /\ l2.pc = "collect"
    /\ \E idx \in DOMAIN l2.futures \ l2.collected :
         /\ l2.futures[idx].status = "returned"
         /\ l2' = [l2 EXCEPT
                 !.df[idx] = L2Store(@, l2.futures[idx].value[1], l2.futures[idx].value[2]),
                 !.collected = @ \cup {idx}]
    /\ UNCHANGED <<mg, scr, l1, fs1, fs2, tl, bt, rt>>

\* lines 486-494: the batch is done, df.to_csv(output_csv)
L2Save ==
    /\ l2.pc = "collect"
    /\ l2.collected = DOMAIN l2.futures
    /\ l2' = [l2 EXCEPT !.pc = "loop", !.batch_num = @ + 1]
    /\ fs2' = [fs2 EXCEPT !.output = File(CsvRoundTrip(l2.df))]
    /\ UNCHANGED <<mg, scr, l1, fs1, tl, bt, rt>>

\* lines 502-503: the loop is over, the final save
L2Finish ==
    /\ l2.pc = "loop"
    /\ l2.batch_num >= l2.num_batches
    /\ l2' = [l2 EXCEPT !.pc = "done"]
    /\ fs2' = [fs2 EXCEPT !.output = File(CsvRoundTrip(l2.df))]
    /\ UNCHANGED <<mg, scr, l1, fs1, tl, bt, rt>>

\* lines 496-500: KeyboardInterrupt anywhere in the try block
L2Interrupt ==
    /\ l2.pc \in {"loop", "collect"}
    /\ l2' = [l2 EXCEPT !.pc = "exit"]
    /\ fs2' = [fs2 EXCEPT !.output = File(CsvRoundTrip(l2.df))]
    /\ UNCHANGED <<mg, scr, l1, fs1, tl, bt, rt>>

\* `python 04_merge_results.py layer2_results.csv final_screening` on the file
\* process_layer2 wrote.
L2Merge ==
    /\ l2.pc \in {"done", "exit"}
    /\ mg.pc = "idle"
    /\ fs2.output.exists
    /\ \E sample \in Samples(Len(LowPriority(MergeFrame(fs2.output.df)))) :
         mg' = MergeRun(fs2.output.df, sample)
    /\ UNCHANGED <<scr, l1, fs1, l2, fs2, tl, bt, rt>>

(***************************************************************************)
(* token_logger.py                                                         *)
(***************************************************************************)
\* _global_logger is None: 0; a TokenLogger object: its place in tl.loggers.
\* calls counts the log_usage calls made since the logger was last reset.
TlIdle == [global |-> 0, loggers |-> <<>>, threads |-> <<>>, calls |-> 0, resets |-> 0]

Threads == 1..NumThreads

\* Two of the models of PRICING (lines 26-34) and the usages a call may log.
Models == {"gemini-flash-latest", "claude-sonnet-4-5-20250929"}
Usages ==
    {[model |-> "gemini-flash-latest", input_tokens |-> 1, output_tokens |-> 2],
     [model |-> "gemini-flash-latest", input_tokens |-> 2, output_tokens |-> 1],
     [model |-> "claude-sonnet-4-5-20250929", input_tokens |-> 1, output_tokens |-> 1]}
NoUsage == [model |-> None, input_tokens |-> 0, output_tokens |-> 0]

\* TokenLogger(), lines 57-59: no records, no totals, a free lock (0, or the
\* thread that holds it).  A model is `in self.totals` when present is TRUE.
\* The three cost totals are updated next to the token totals, in the same
\* with block; they are left out.
NoTotals == [present |-> FALSE, input_tokens |-> 0, output_tokens |-> 0, api_calls |-> 0]
TokenLogger == [records |-> <<>>, totals |-> [m \in Models |-> NoTotals], lock |-> 0]

\* A thread: where it is in get_logger / log_usage, the logger it got from
\* get_logger (0: none yet), the arguments of its log_usage call, the value it
\* read for the `+=` it is in, and which of the three `+=` that is.
ThreadAt(pc, logger) == [pc |-> pc, logger |-> logger, usage |-> NoUsage, tmp |-> 0, k |-> 0]

\* The totals updated under the lock, in the order of lines 113-118, and what
\* each is increased by.
Counters == <<"input_tokens", "output_tokens", "api_calls">>
Amount(usage, k) ==
    CASE k = 1 -> usage.input_tokens
      [] k = 2 -> usage.output_tokens
      [] k = 3 -> 1

\* log_usage lines 72-97: the call is made and the UsageRecord built.
LogCall(t) ==
    /\ tl.threads[t].pc = "idle"
    /\ tl.threads[t].logger # 0
    /\ tl.calls < MaxLogCalls
    /\ \E u \in Usages :
         tl' = [tl EXCEPT !.threads[t].pc = "lock", !.threads[t].usage = u,
                          !.calls = @ + 1]
    /\ UNCHANGED <<mg, scr, l1, fs1, l2, fs2, bt, rt>>

\* line 99: with self._lock
LogAcquire_nolock(t) ==
    /\ tl.threads[t].pc = "lock"
    /\ tl' = [tl EXCEPT !.threads[t].pc = "append"]
    /\ UNCHANGED <<mg, scr, l1, fs1, l2, fs2, bt, rt>>

LogAcquire(t) ==
    /\ tl.threads[t].pc = "lock"
    /\ tl.loggers[tl.threads[t].logger].lock = 0
    /\ tl' = [tl EXCEPT !.threads[t].pc = "append",
                        !.loggers[tl.threads[t].logger].lock = t]
    /\ UNCHANGED <<mg, scr, l1, fs1, l2, fs2, bt, rt>>

\* line 100: self.records.append(record)
LogAppend(t) ==
    /\ tl.threads[t].pc = "append"
    /\ tl' = [tl EXCEPT !.threads[t].pc = "init",
                        !.loggers[tl.threads[t].logger].records =
                            Append(@, tl.threads[t].usage)]
    /\ UNCHANGED <<mg, scr, l1, fs1, l2, fs2, bt, rt>>

\* lines 103-111: if model not in self.totals: self.totals[model] = {zeros}
LogInitTotals(t) ==
    /\ tl.threads[t].pc = "init"
    /\ LET model == tl.threads[t].usage.model
       IN  tl' = [tl EXCEPT
               !.threads[t].pc = "read", !.threads[t].k = 1,
               !.loggers[tl.threads[t].logger].totals[model] =
                   IF @.present THEN @ ELSE [NoTotals EXCEPT !.present = TRUE]]
    /\ UNCHANGED <<mg, scr, l1, fs1, l2, fs2, bt, rt>>

\* lines 113-118, `self.totals[model][counter] += amount`: the read
LogRead(t) ==
    /\ tl.threads[t].pc = "read"
    /\ LET th == tl.threads[t]
       IN  tl' = [tl EXCEPT
               !.threads[t].pc = "write",
               !.threads[t].tmp = tl.loggers[th.logger].totals[th.usage.model][Counters[th.k]]]
    /\ UNCHANGED <<mg, scr, l1, fs1, l2, fs2, bt, rt>>

\* lines 113-118, `self.totals[model][counter] += amount`: the store
LogWrite(t) ==
    /\ tl.threads[t].pc = "write"
    /\ LET th == tl.threads[t]
       IN  tl' = [tl EXCEPT
               !.threads[t].pc = IF th.k < Len(Counters) THEN "read" ELSE "unlock",
               !.threads[t].k = IF th.k < Len(Counters) THEN @ + 1 ELSE 0,
               !.threads[t].tmp = 0,
               !.loggers[th.logger].totals[th.usage.model][Counters[th.k]] =
                   th.tmp + Amount(th.usage, th.k)]
    /\ UNCHANGED <<mg, scr, l1, fs1, l2, fs2, bt, rt>>

\* lines 119-120: the with block is left, return record
LogRelease(t) ==
    /\ tl.threads[t].pc = "unlock"
    /\ tl' = [tl EXCEPT !.threads[t].pc = "idle", !.threads[t].usage = NoUsage,
                        !.loggers[tl.threads[t].logger].lock = 0]
    /\ UNCHANGED <<mg, scr, l1, fs1, l2, fs2, bt, rt>>

\* get_logger line 227: if _global_logger is None
GetLoggerCheck(t) ==
    /\ tl.threads[t].pc = "start"
    /\ tl' = [tl EXCEPT !.threads[t].pc = IF tl.global = 0 THEN "create" ELSE "return"]
    /\ UNCHANGED <<mg, scr, l1, fs1, l2, fs2, bt, rt>>

\* get_logger line 228: _global_logger = TokenLogger()
GetLoggerCreate(t) ==
    /\ tl.threads[t].pc = "create"
    /\ tl' = [tl EXCEPT !.threads[t].pc = "return",
                        !.loggers = Append(@, TokenLogger),
                        !.global = Len(tl.loggers) + 1]
    /\ UNCHANGED <<mg, scr, l1, fs1, l2, fs2, bt, rt>>

\* get_logger line 229: return _global_logger
GetLoggerReturn(t) ==
    /\ tl.threads[t].pc = "return"
    /\ tl' = [tl EXCEPT !.threads[t].pc = "idle", !.threads[t].logger = tl.global]
    /\ UNCHANGED <<mg, scr, l1, fs1, l2, fs2, bt, rt>>

\* reset_logger, lines 232-235, called by the main thread of a script before
\* it starts its work (retry_claude_errors.py:61): the threads of the work
\* that follows have not called get_logger yet.
ResetLogger ==
    /\ tl.resets < MaxResets
    /\ \A t \in Threads : tl.threads[t].pc \in {"start", "idle"}
    /\ tl' = [tl EXCEPT !.loggers = Append(@, TokenLogger),
                        !.global = Len(tl.loggers) + 1,
                        !.threads = [t \in Threads |-> ThreadAt("start", 0)],
                        !.calls = 0,
                        !.resets = @ + 1]
    /\ UNCHANGED <<mg, scr, l1, fs1, l2, fs2, bt, rt>>

NextLogUsage ==
    \E t \in Threads :
        \/ LogCall(t)
        \/ LogAcquire(t)
        \/ LogAppend(t)
        \/ LogInitTotals(t)
        \/ LogRead(t)
        \/ LogWrite(t)
        \/ LogRelease(t)

(***************************************************************************)
(* The batch loops of process_screening (02:260-262), process_layer2       *)
(* (03:433-439) and retry_claude_errors (retry:68-73), for any batch size. *)
(* total is the number of rows of the dataframe, indices the list          *)
(* pass_indices or error_indices, batches the batch_indices of the         *)
(* iterations made so far.                                                 *)
(***************************************************************************)
BtIdle == [pc |-> "idle", prog |-> "none", batch_size |-> 0, total |-> 0, start_idx |-> 0,
           indices |-> <<>>, batch_start |-> 0, batch_num |-> 0, num_batches |-> 0,
           batches |-> <<>>]

BatchProgs == {"layer1", "layer2", "retry"}

\* The lists of row indices a dataframe of at most MaxBatchItems rows can give.
IndexLists == {Ascending(S, 0, MaxBatchItems - 1) : S \in SUBSET (0..(MaxBatchItems - 1))}

\* The statements before the loop.  retry_claude_errors returns when there is
\* no error to retry (lines 47-49).
BatchBegin ==
    /\ bt.pc = "start"
    /\ bt' = CASE bt.prog = "layer1" ->
                    [bt EXCEPT !.pc = "loop", !.batch_start = bt.start_idx]
               [] bt.prog = "layer2" ->
                    LET indices_to_process == SliceFrom(bt.indices, bt.start_idx)
                    IN  [bt EXCEPT !.pc = "loop", !.indices = indices_to_process,
                                   !.num_batches = NumBatches(Len(indices_to_process),
                                                              bt.batch_size)]
               [] bt.prog = "retry" ->
                    IF Len(bt.indices) = 0
                    THEN [bt EXCEPT !.pc = "done"]
                    ELSE [bt EXCEPT !.pc = "loop",
                                    !.num_batches = NumBatches(Len(bt.indices), bt.batch_size)]
    /\ UNCHANGED <<mg, scr, l1, fs1, l2, fs2, tl, rt>>

\* 02:260-262: for batch_start in range(start_idx, total_records, batch_size)
BatchLayer1 ==
    /\ bt.pc = "loop"
    /\ bt.prog = "layer1"
    /\ bt.batch_start < bt.total
    /\ LET batch_end == BatchEnd(bt.batch_start, bt.batch_size, bt.total)
           batch_indices == IndexRange(bt.batch_start, batch_end)
       IN  bt' = [bt EXCEPT !.batches = Append(@, batch_indices),
                            !.batch_start = @ + bt.batch_size]
    /\ UNCHANGED <<mg, scr, l1, fs1, l2, fs2, tl, rt>>

\* 03:436-439 and retry:70-73: for batch_num in range(num_batches)
BatchOfList ==
    /\ bt.pc = "loop"
    /\ bt.prog \in {"layer2", "retry"}
    /\ bt.batch_num < bt.num_batches
    /\ LET batch_start == bt.batch_num * bt.batch_size
           batch_end == BatchEnd(batch_start, bt.batch_size, Len(bt.indices))
           batch_indices == Slice(bt.indices, batch_start, batch_end)
       IN  bt' = [bt EXCEPT !.batches = Append(@, batch_indices),
                            !.batch_num = @ + 1]
    /\ UNCHANGED <<mg, scr, l1, fs1, l2, fs2, tl, rt>>

\* The range of the for statement is used up.
BatchLoopEnd ==
    /\ bt.pc = "loop"
    /\ IF bt.prog = "layer1" THEN bt.batch_start >= bt.total
                             ELSE bt.batch_num >= bt.num_batches
    /\ bt' = [bt EXCEPT !.pc = "done"]
    /\ UNCHANGED <<mg, scr, l1, fs1, l2, fs2, tl, rt>>

(***************************************************************************)
(* retry_claude_errors.py retry_claude_errors                              *)
(*                                                                         *)
(* rt.file is layer2_results.csv.  rt.loaded (the dataframe as read_csv    *)
(* gave it) and rt.results (what screen_with_claude returned for each      *)
(* index retried in this run) record the run for the properties; the code  *)
(* keeps neither.                                                          *)
(***************************************************************************)
RtIdle == [pc |-> "idle", file |-> NoFile, df |-> <<>>, loaded |-> <<>>,
           error_indices |-> <<>>, batch_size |-> 0, num_batches |-> 0,
           batch_num |-> 0, pos |-> 0, results |-> <<>>, runs |-> 0]

\* The rows process_layer2 leaves in its output file: a record that did not
\* pass Layer 1 keeps its Layer 2 cells empty, a record that passed has the
\* two results stored by lines 455-475 of 03_layer2_inclusion.py.
Layer2FileRows ==
    {[c \in L2Columns \cup {"L1_decision"} |->
         CsvCell((L2Fresh(<<[L1_decision |-> "exclude"]>>)[1])[c])]}
    \cup
    {[c \in L2Columns \cup {"L1_decision"} |->
         CsvCell(L2Store(L2Fresh(<<[L1_decision |-> "pass"]>>)[1], pro, sonnet)[c])] :
        pro \in GeminiProFutures, sonnet \in ClaudeFutures}

\* The files layer2_results.csv can be when retry_claude_errors is started.
Layer2Files ==
    UNION {[0..(n - 1) -> Layer2FileRows] : n \in 1..MaxRetryRows}

\* lines 41-42: df[df['L2_sonnet_error'].notna()].index.tolist()
ErrorIndices_all(df) ==
    Ascending({i \in DOMAIN df : NotNa(df[i]["L2_sonnet_decision"])}, 0, MaxRetryRows - 1)

ErrorIndices(df) ==
    Ascending({i \in DOMAIN df : NotNa(df[i]["L2_sonnet_error"])}, 0, MaxRetryRows - 1)

\* lines 96-97: result['thinking'][:500] if result['thinking'] else ''
ThinkingCells == {"thinking text", ""}

\* lines 89-103: a successful result written into row idx.  df.at with a
\* column the dataframe does not have yet (L2_sonnet_thinking) adds the
\* column, empty in every other row.
RetryStore(df, idx, result, thinking) ==
    LET sonnet_flat == flatten_result(result, "L2_sonnet")
        pro_decision == df[idx]["L2_pro_decision"]
        updated == sonnet_flat @@
                   [L2_sonnet_thinking |-> thinking,
                    L2_models_agree |-> PyBool(PyEq(pro_decision, result.decision))]
    IN  [i \in DOMAIN df |->
            LET row == df[i] @@ [L2_sonnet_thinking |-> NaN]
            IN  IF i # idx THEN row
                ELSE [c \in DOMAIN row |-> IF c \in DOMAIN updated THEN updated[c] ELSE row[c]]]

\* lines 38-68: `python retry_claude_errors.py [batch_size]`, with the default
\* batch size or with batches of one record (SpecBatch walks the batch loop
\* for the other sizes).  The function returns when no row has a Claude error,
\* and the process exits when the API key is not set.
RetryBegin ==
    /\ rt.pc \in {"idle", "done", "exit"}
    /\ rt.runs < MaxRetryRuns
    /\ rt.file.exists
    /\ \E batch_size \in {1, RetryBatchSize}, key_set \in BOOLEAN :
         LET df == rt.file.df
             error_indices == ErrorIndices(df)
         IN  rt' = [rt EXCEPT
                 !.pc = IF Len(error_indices) = 0 THEN "done"
                        ELSE IF key_set THEN "loop" ELSE "exit",
                 !.df = df, !.loaded = df, !.error_indices = error_indices,
                 !.batch_size = batch_size,
                 !.num_batches = NumBatches(Len(error_indices), batch_size),
                 !.batch_num = 0, !.pos = 0, !.results = <<>>,
                 !.runs = @ + 1]
    /\ UNCHANGED <<mg, scr, l1, fs1, l2, fs2, tl, bt>>

\* lines 71-73: the batch_indices of the batch the loop is in
RetryBatch ==
    LET batch_start == rt.batch_num * rt.batch_size
        batch_end == BatchEnd(batch_start, rt.batch_size, Len(rt.error_indices))
    IN  Slice(rt.error_indices, batch_start, batch_end)

\* lines 77-107: the next index of the batch: screen_with_claude is called,
\* and its result is stored when it carries no error.
RetryCall ==
    /\ rt.pc = "loop"
    /\ rt.batch_num < rt.num_batches
    /\ rt.pos < Len(RetryBatch)
    /\ LET idx == RetryBatch[rt.pos + 1]
       IN  \E result \in ClaudeFutures, thinking \in ThinkingCells :
             rt' = [rt EXCEPT
                 !.df = IF result.error = None
                        THEN RetryStore(rt.df, idx, result, thinking)
                        ELSE rt.df,
                 !.results = (idx :> result) @@ @,
                 !.pos = @ + 1]
    /\ UNCHANGED <<mg, scr, l1, fs1, l2, fs2, tl, bt>>

\* line 110: the batch is done, df.to_csv('layer2_results.csv', index=False)
RetrySave ==
    /\ rt.pc = "loop"
    /\ rt.batch_num < rt.num_batches
    /\ rt.pos = Len(RetryBatch)
    /\ rt' = [rt EXCEPT !.file = File(CsvRoundTrip(rt.df)),
                        !.batch_num = @ + 1, !.pos = 0]
    /\ UNCHANGED <<mg, scr, l1, fs1, l2, fs2, tl, bt>>

\* lines 118-132: the loop is over, the statistics are printed
RetryFinish ==
    /\ rt.pc = "loop"
    /\ rt.batch_num >= rt.num_batches
    /\ rt' = [rt EXCEPT !.pc = "done"]
    /\ UNCHANGED <<mg, scr, l1, fs1, l2, fs2, tl, bt>>

(***************************************************************************)
(* The specifications.                                                     *)
(***************************************************************************)
InitMerge ==
    /\ mg \in {[MgIdle EXCEPT !.pc = "loaded", !.df = WithRecordIds(d)] : d \in MergeInputs}
    /\ scr = ScrIdle
    /\ l1 = L1Idle
    /\ fs1 = Fs1Idle
    /\ l2 = L2Idle
    /\ fs2 = Fs2Idle
    /\ tl = TlIdle
    /\ bt = BtIdle
    /\ rt = RtIdle

NextMerge == MergeMain

SpecMerge == InitMerge /\ [][NextMerge]_vars

InitScreen ==
    /\ mg = MgIdle
    /\ scr \in {[ScrIdle EXCEPT !.fn = fn, !.max_retries = m, !.retry_delay = d,
                                !.status = "running"] :
                  fn \in ScreenFns, m \in 0..MaxRetriesArg, d \in 1..MaxRetryDelay}
    /\ l1 = L1Idle
    /\ fs1 = Fs1Idle
    /\ l2 = L2Idle
    /\ fs2 = Fs2Idle
    /\ tl = TlIdle
    /\ bt = BtIdle
    /\ rt = RtIdle

NextScreen == ScreenCall \/ ScreenLoopEnd

SpecScreen == InitScreen /\ [][NextScreen]_vars

\* The thread that runs the call keeps running: an API call returns or
\* raises, and a time.sleep ends.
SpecScreenFair == SpecScreen /\ WF_vars(NextScreen)

InitL1 ==
    /\ mg = MgIdle
    /\ scr = ScrIdle
    /\ l1 = L1Idle
    /\ fs1 \in {[Fs1Idle EXCEPT !.input = inp] :
                  inp \in [Indices -> {[title |-> t] : t \in TitleCells}]}
    /\ l2 = L2Idle
    /\ fs2 = Fs2Idle
    /\ tl = TlIdle
    /\ bt = BtIdle
    /\ rt = RtIdle

NextL1 ==
    \/ L1Begin
    \/ L1Submit
    \/ L1Worker
    \/ L1Collect
    \/ L1Save
    \/ L1Finish
    \/ L1Interrupt

SpecL1 == InitL1 /\ [][NextL1]_vars

InitL2 ==
    /\ mg = MgIdle
    /\ scr = ScrIdle
    /\ l1 = L1Idle
    /\ fs1 = Fs1Idle
    /\ l2 = L2Idle
    /\ fs2 \in {[Fs2Idle EXCEPT !.input = inp] :
                  inp \in [Indices -> {[L1_decision |-> d] : d \in L1Cells}]}
    /\ tl = TlIdle
    /\ bt = BtIdle
    /\ rt = RtIdle

NextL2 ==
    \/ L2Begin
    \/ L2Submit
    \/ L2WorkerRead
    \/ L2Worker
    \/ L2Collect
    \/ L2Save
    \/ L2Finish
    \/ L2Interrupt
    \/ L2Merge

SpecL2 == InitL2 /\ [][NextL2]_vars

\* The two stages on CSV files whose rows carry a record_id: either Layer 1 on
\* a file of records with and without a title (Layer 2 is not run), or Layer 2
\* and then the merge on a file of Layer 1 results (Layer 1 is not run).
InitStages ==
    /\ mg = MgIdle
    /\ scr = ScrIdle
    /\ \/ /\ l1 = L1Idle
          /\ fs1 \in {[Fs1Idle EXCEPT !.input = inp] :
                       inp \in {[i \in Indices |-> [record_id |-> RecordId(i), title |-> t[i]]] :
                                  t \in [Indices -> {"A title", "   "}]}}
          /\ l2 = [L2Idle EXCEPT !.pc = "off"]
          /\ fs2 = Fs2Idle
       \/ /\ l1 = [L1Idle EXCEPT !.pc = "off"]
          /\ fs1 = Fs1Idle
          /\ l2 = L2Idle
          /\ fs2 \in {[Fs2Idle EXCEPT !.input = inp] :
                       inp \in {[i \in Indices |->
                                    [record_id |-> RecordId(i), L1_decision |-> d[i]]] :
                                  d \in [Indices -> {"exclude", "pass"}]}}
    /\ tl = TlIdle
    /\ bt = BtIdle
    /\ rt = RtIdle

NextStages == NextL1 \/ NextL2

SpecStages == InitStages /\ [][NextStages]_vars

\* One TokenLogger used by several threads: the logger exists and every
\* thread has it.
InitLogger ==
    /\ mg = MgIdle
    /\ scr = ScrIdle
    /\ l1 = L1Idle
    /\ fs1 = Fs1Idle
    /\ l2 = L2Idle
    /\ fs2 = Fs2Idle
    /\ tl = [TlIdle EXCEPT !.global = 1, !.loggers = <<TokenLogger>>,
                           !.threads = [t \in Threads |-> ThreadAt("idle", 1)]]
    /\ bt = BtIdle
    /\ rt = RtIdle

NextLogger == NextLogUsage

SpecLogger == InitLogger /\ [][NextLogger]_vars

\* The global logger of a script that never calls reset_logger before its
\* workers start (02_layer1_exclusion.py, 03_layer2_inclusion.py): the module
\* is imported, _global_logger is None, and each worker calls get_logger.
InitSingleton ==
    /\ mg = MgIdle
    /\ scr = ScrIdle
    /\ l1 = L1Idle
    /\ fs1 = Fs1Idle
    /\ l2 = L2Idle
    /\ fs2 = Fs2Idle
    /\ tl = [TlIdle EXCEPT !.threads = [t \in Threads |-> ThreadAt("start", 0)]]
    /\ bt = BtIdle
    /\ rt = RtIdle

NextSingleton ==
    \/ \E t \in Threads :
          \/ GetLoggerCheck(t)
          \/ GetLoggerCreate(t)
          \/ GetLoggerReturn(t)
    \/ ResetLogger
    \/ NextLogUsage

SpecSingleton == InitSingleton /\ [][NextSingleton]_vars

\* A batch loop is started: Layer 1 on `total` rows from a resume index,
\* Layer 2 on a list of pass rows from a resume index, retry_claude_errors on
\* a list of error rows.
InitBatch ==
    /\ mg = MgIdle
    /\ scr = ScrIdle
    /\ l1 = L1Idle
    /\ fs1 = Fs1Idle
    /\ l2 = L2Idle
    /\ fs2 = Fs2Idle
    /\ tl = TlIdle
    /\ rt = RtIdle
    /\ bt \in
          {[BtIdle EXCEPT !.pc = "start", !.prog = "layer1", !.batch_size = b,
                          !.total = n, !.start_idx = st] :
              b \in 1..MaxBatchSize, n \in 0..MaxBatchItems, st \in 0..MaxBatchItems}
          \cup
          {[BtIdle EXCEPT !.pc = "start", !.prog = "layer2", !.batch_size = b,
                          !.total = MaxBatchItems, !.indices = list, !.start_idx = st] :
              b \in 1..MaxBatchSize, list \in IndexLists, st \in 0..MaxBatchItems}
          \cup
          {[BtIdle EXCEPT !.pc = "start", !.prog = "retry", !.batch_size = b,
                          !.total = MaxBatchItems, !.indices = list] :
              b \in 1..MaxBatchSize, list \in IndexLists}

NextBatch ==
    \/ BatchBegin
    \/ BatchLayer1
    \/ BatchOfList
    \/ BatchLoopEnd

SpecBatch == InitBatch /\ [][NextBatch]_vars

\* retry_claude_errors, run up to MaxRetryRuns times on a file process_layer2
\* wrote.
InitRetry ==
    /\ mg = MgIdle
    /\ scr = ScrIdle
    /\ l1 = L1Idle
    /\ fs1 = Fs1Idle
    /\ l2 = L2Idle
    /\ fs2 = Fs2Idle
    /\ tl = TlIdle
    /\ bt = BtIdle
    /\ rt \in {[RtIdle EXCEPT !.file = File(f)] : f \in Layer2Files}

NextRetry ==
    \/ RetryBegin
    \/ RetryCall
    \/ RetrySave
    \/ RetryFinish

SpecRetry == InitRetry /\ [][NextRetry]_vars

(***************************************************************************)
(* The claims.                                                             *)
(***************************************************************************)
Priority(row, auto, prio) == row["auto_decision"] = auto /\ row["review_priority"] = prio

\* C1 (SpecMerge): determine_final_decision implements the decision table.
\* For every merged row: Layer 1 'exclude' gives exclude/none; otherwise the
\* two Layer 2 decisions the function reads (L2_pro_decision and
\* L2_opus_decision) both 'include' give include/high, both 'exclude' give
\* exclude/low, and one 'include' with the other 'exclude' gives
\* uncertain/high.
C1_DecisionTable ==
    mg.pc = "done" =>
        \A i \in DOMAIN mg.out :
            LET row == mg.out[i]
                l1d == mg.df[i]["L1_decision"]
                pro == RowGet(mg.df[i], "L2_pro_decision")
                opus == RowGet(mg.df[i], "L2_opus_decision")
            IN  /\ l1d = "exclude" => Priority(row, "exclude", "none")
                /\ (l1d # "exclude" /\ pro = "include" /\ opus = "include")
                       => Priority(row, "include", "high")
                /\ (l1d # "exclude" /\ pro = "exclude" /\ opus = "exclude")
                       => Priority(row, "exclude", "low")
                /\ (l1d # "exclude" /\ {pro, opus} = {"include", "exclude"})
                       => Priority(row, "uncertain", "high")

\* A merged file of two rows that passed Layer 1: one both models include,
\* one on which they disagree.
C1_Witness ==
    /\ mg.pc = "done"
    /\ Len(mg.out) = 2
    /\ mg.df[1]["L1_decision"] = "pass"
    /\ RowGet(mg.df[1], "L2_pro_decision") = "include"
    /\ RowGet(mg.df[1], "L2_opus_decision") = "include"
    /\ Priority(mg.out[1], "include", "high")
    /\ mg.df[2]["L1_decision"] = "pass"
    /\ RowGet(mg.df[2], "L2_pro_decision") = "exclude"
    /\ RowGet(mg.df[2], "L2_opus_decision") = "include"
    /\ Priority(mg.out[2], "uncertain", "high")

\* C2 (SpecL2): the merge of the file process_layer2 wrote follows the two
\* decisions stored in it.  For every row that passed Layer 1 and has the same
\* stored decision for Gemini Pro and Claude Sonnet, auto_decision is that
\* decision; a row that passed Layer 1 is 'uncertain' only when the two stored
\* decisions differ.
C2_MergeFollowsLayer2 ==
    mg.pc = "done" =>
        \A i \in DOMAIN mg.out :
            LET row == mg.out[i]
                pro == row["L2_pro_decision"]
                sonnet == row["L2_sonnet_decision"]
            IN  row["L1_decision"] = "pass" =>
                  /\ (pro = "include" /\ sonnet = "include")
                         => row["auto_decision"] = "include"
                  /\ (pro = "exclude" /\ sonnet = "exclude")
                         => row["auto_decision"] = "exclude"
                  /\ row["auto_decision"] = "uncertain" => pro # sonnet

AllFailed(hist) == \A k \in DOMAIN hist : hist[k] # "json"

\* C3 (SpecScreen): screen_record_layer1 never raises, and when every one of
\* its max_retries attempts failed it returns decision 'pass', no exclusion
\* tags and an error that is not None.
C3_Layer1NeverRaises ==
    scr.fn = "layer1" =>
        /\ scr.status # "raised"
        /\ (scr.status = "returned" /\ AllFailed(scr.hist)) =>
              /\ scr.calls = scr.max_retries
              /\ scr.result.decision = "pass"
              /\ scr.result.exclusion_tags = <<>>
              /\ scr.result.error # None

\* Three attempts: an exception, a response without a decision, an exception.
C3_Witness ==
    /\ scr.fn = "layer1"
    /\ scr.status = "returned"
    /\ scr.hist = <<"exception", "text", "exception">>
    /\ scr.result.decision = "pass"
    /\ scr.result.error = "str(e)"

\* C4 (SpecScreen): screen_with_gemini_pro and screen_with_claude never
\* raise, and when every one of their max_retries attempts failed they return
\* decision 'include', confidence 'low', status 'unclear' for INC-1..INC-5 and
\* an error that is not None.
C4_Layer2NeverRaises ==
    scr.fn \in {"gemini_pro", "claude"} =>
        /\ scr.status # "raised"
        /\ (scr.status = "returned" /\ AllFailed(scr.hist)) =>
              /\ scr.calls = scr.max_retries
              /\ scr.result.decision = "include"
              /\ scr.result.confidence = "low"
              /\ \A tag \in {"INC-1", "INC-2", "INC-3", "INC-4", "INC-5"} :
                    scr.result.inclusion_check[tag] = "unclear"
              /\ scr.result.error # None

\* Claude, three attempts: no decision, an exception, no decision.
C4_Witness ==
    /\ scr.fn = "claude"
    /\ scr.status = "returned"
    /\ scr.hist = <<"text", "exception", "text">>
    /\ scr.result.decision = "include"
    /\ scr.result.error = "Max retries"

\* The dataframes of Layer 1: the one in memory and the one on disk.
L1Frames == {l1.df} \cup (IF fs1.output.exists THEN {fs1.output.df} ELSE {})

\* C5 (SpecL1): Layer 1 excludes only on an explicit verdict.  Every row whose
\* L1_decision is 'exclude', in memory or on disk, got it from an API attempt
\* whose JSON held decision 'exclude'; every future that resolved to 'exclude'
\* carries that verdict and no error.
C5_ExcludeOnlyOnVerdict ==
    /\ \A df \in L1Frames : \A i \in DOMAIN df :
          df[i]["L1_decision"] = "exclude" =>
              /\ df[i]["api_verdict"] = "exclude"
              /\ ~NotNa(df[i]["L1_error"])
              /\ Strip(PyStr(df[i]["title"])) # ""
    /\ \A idx \in DOMAIN l1.results :
          (l1.results[idx].status = "returned"
             /\ l1.results[idx].value.decision = "exclude") =>
                /\ l1.results[idx].value.raw_response = "exclude"
                /\ l1.results[idx].value.error = None

\* The file holds a record excluded on a verdict, a record passed after its
\* attempts failed and a record without a title.
C5_Witness ==
    /\ fs1.output.exists
    /\ \E i, j, k \in DOMAIN fs1.output.df :
          /\ fs1.output.df[i]["L1_decision"] = "exclude"
          /\ fs1.output.df[j]["L1_decision"] = "pass"
          /\ NotNa(fs1.output.df[j]["L1_error"])
          /\ fs1.output.df[k]["L1_decision"] = "pass"
          /\ fs1.output.df[k]["L1_reasoning"] = "No title available"

\* C6 (SpecL1): after process_screening has run to completion every record of
\* the output has an L1_decision that is 'exclude' or 'pass'.
C6_EveryRecordDecided ==
    l1.pc = "done" =>
        \A i \in DOMAIN fs1.output.df :
            fs1.output.df[i]["L1_decision"] \in {"exclude", "pass"}

\* The pass rows of the input that come after the first start_idx of them.
PassRowsFrom(input, start_idx) ==
    {i \in DOMAIN input :
        /\ input[i]["L1_decision"] = "pass"
        /\ Cardinality({j \in DOMAIN input :
                            j < i /\ input[j]["L1_decision"] = "pass"}) >= start_idx}

L2Untouched(row) == \A c \in L2Columns : ~NotNa(row[c])

\* C7 (SpecL2): process_layer2 verifies only records that passed Layer 1.  The
\* model calls are made for rows whose L1_decision is 'pass' only; a run that
\* completes has made them for every such row (from the resume index on, which
\* is every such row when the run is not resumed); and rows that did not pass
\* keep all L2_* columns, L2_models_agree and needs_human_review empty, in
\* memory and on disk.
C7_OnlyPassRows ==
    /\ \A idx \in l2.called : fs2.input[idx]["L1_decision"] = "pass"
    /\ l2.pc = "done" => l2.called = PassRowsFrom(fs2.input, l2.start_idx)
    /\ (l2.pc = "done" /\ l2.resume_from = NoIndex) =>
          l2.called = {i \in DOMAIN fs2.input : fs2.input[i]["L1_decision"] = "pass"}
    /\ \A i \in DOMAIN l2.df :
          fs2.input[i]["L1_decision"] # "pass" => L2Untouched(l2.df[i])
    /\ fs2.output.exists =>
          \A i \in DOMAIN fs2.output.df :
              fs2.input[i]["L1_decision"] # "pass" => L2Untouched(fs2.output.df[i])

\* A completed run without --resume over a file with a passed record, which
\* has its results, and an excluded one, which has none.
C7_Witness ==
    /\ l2.pc = "done"
    /\ l2.resume_from = NoIndex
    /\ \E i, j \in DOMAIN fs2.output.df :
          /\ fs2.input[i]["L1_decision"] = "pass"
          /\ i \in l2.called
          /\ NotNa(fs2.output.df[i]["L2_pro_decision"])
          /\ NotNa(fs2.output.df[i]["L2_sonnet_decision"])
          /\ fs2.input[j]["L1_decision"] = "exclude"
          /\ L2Untouched(fs2.output.df[j])

\* The dataframes of Layer 2: the one in memory and the one on disk.
L2Frames == {l2.df} \cup (IF fs2.output.exists THEN {fs2.output.df} ELSE {})

\* C8 (SpecL2): for every record Layer 2 has processed, L2_models_agree says
\* whether the two stored decisions are equal, needs_human_review is False
\* exactly when both decisions are 'exclude', and it is True whenever a model
\* call fell back to the default after failed retries.
C8_AgreementAndReview ==
    \A df \in L2Frames : \A i \in DOMAIN df :
        NotNa(df[i]["L2_pro_decision"]) =>
            LET pro == df[i]["L2_pro_decision"]
                sonnet == df[i]["L2_sonnet_decision"]
            IN  /\ df[i]["L2_models_agree"] = PyBool(pro = sonnet)
                /\ df[i]["needs_human_review"] \in {"True", "False"}
                /\ df[i]["needs_human_review"] = "False"
                      <=> (pro = "exclude" /\ sonnet = "exclude")
                /\ (NotNa(df[i]["L2_pro_error"]) \/ NotNa(df[i]["L2_sonnet_error"]))
                      => df[i]["needs_human_review"] = "True"

\* The file holds a record both models excluded and a record for which the
\* Claude call fell back to the default while Gemini Pro excluded.
C8_Witness ==
    /\ fs2.output.exists
    /\ \E i, j \in DOMAIN fs2.output.df :
          /\ fs2.output.df[i]["L2_pro_decision"] = "exclude"
          /\ fs2.output.df[i]["L2_sonnet_decision"] = "exclude"
          /\ fs2.output.df[i]["needs_human_review"] = "False"
          /\ fs2.output.df[j]["L2_pro_decision"] = "exclude"
          /\ NotNa(fs2.output.df[j]["L2_sonnet_error"])
          /\ fs2.output.df[j]["L2_models_agree"] = "False"
          /\ fs2.output.df[j]["needs_human_review"] = "True"

\* C9 (SpecL1): when a restarted process_screening resumes from the existing
\* output file, the index it starts at is where the previous run stopped:
\* every row before it has a decision and no row from it on has one.
C9_ResumeWhereStopped ==
    (l1.resumed /\ l1.pc = "loop" /\ l1.batch_start = NoIndex) =>
        \A i \in DOMAIN l1.df :
            i < l1.start_idx <=> NotNa(l1.df[i]["L1_decision"])

\* C10 (SpecL1): a run restarted with the --resume N the interrupted run
\* printed ends with a result for every record in the output CSV.
C10_ResumeKeepsEarlierWork ==
    (l1.pc = "done" /\ l1.resume_from # NoIndex) =>
        \A i \in DOMAIN fs1.output.df : NotNa(fs1.output.df[i]["L1_decision"])

\* A row as to_csv writes it and read_csv reads it back.
CsvRow(row) == [c \in DOMAIN row |-> CsvCell(row[c])]

\* The records of the batches the running (or aborted) invocation has
\* finished: Layer 1 walks the indices from start_idx, Layer 2 the list
\* indices_to_process.
L1DoneRecords ==
    IF l1.pc \in {"loop", "done"} THEN l1.start_idx..(Min(l1.pos, total_records) - 1)
    ELSE IF l1.pc \in {"collect", "exit"} THEN l1.start_idx..(l1.batch_start - 1)
    ELSE {}
L2DoneRecords ==
    {l2.indices_to_process[k] :
        k \in 1..Min(l2.batch_num * BatchSize, Len(l2.indices_to_process))}

\* C11 (SpecStages): checkpointing after every batch, in Layer 1 and Layer 2.
\* At every batch boundary after the first batch the output CSV is the
\* dataframe as it stands; and at every moment of a run, an abort included,
\* the file holds the result of every record of every batch the run has
\* finished, so an abort during batch k loses at most the work of batch k.
C11_CheckpointEachBatch ==
    /\ (l1.pc = "loop" /\ l1.batch_start # NoIndex) =>
          fs1.output.exists /\ fs1.output.df = CsvRoundTrip(l1.df)
    /\ \A i \in L1DoneRecords \cap DOMAIN l1.df :
          /\ fs1.output.exists
          /\ fs1.output.df[i] = CsvRow(l1.df[i])
          /\ NotNa(fs1.output.df[i]["L1_decision"])
    /\ (l2.pc = "loop" /\ l2.batch_num > 0) =>
          fs2.output.exists /\ fs2.output.df = CsvRoundTrip(l2.df)
    /\ \A idx \in L2DoneRecords :
          /\ fs2.output.exists
          /\ fs2.output.df[idx] = CsvRow(l2.df[idx])
          /\ NotNa(fs2.output.df[idx]["L2_pro_decision"])
          /\ NotNa(fs2.output.df[idx]["L2_sonnet_decision"])
          /\ NotNa(fs2.output.df[idx]["L2_models_agree"])

\* Layer 2 aborted during its second batch: the file has the results of the
\* first batch and none for a record of the second.
C11_Witness ==
    /\ l2.pc = "exit"
    /\ l2.batch_num = 1
    /\ Len(l2.indices_to_process) > BatchSize
    /\ \A k \in 1..BatchSize :
          NotNa(fs2.output.df[l2.indices_to_process[k]]["L2_models_agree"])
    /\ ~NotNa(fs2.output.df[l2.indices_to_process[BatchSize + 1]]["L2_models_agree"])

\* C12 (SpecStages): in Layer 1 and Layer 2 the dataframe is written by the
\* main thread only.  While a batch is being collected, a step in which a
\* worker's future resolves leaves the dataframe unchanged, and a step that
\* changes the row of a submitted record is taken only when that record's
\* future has already resolved.
C12_MainThreadWrites ==
    [][/\ (l1.pc = "collect" /\ l1'.pc = "collect") =>
            /\ l1'.results # l1.results => l1'.df = l1.df
            /\ \A idx \in DOMAIN l1.results :
                  l1'.df[idx] # l1.df[idx] => l1.results[idx].status # "pending"
       /\ (l2.pc = "collect" /\ l2'.pc = "collect") =>
            /\ l2'.futures # l2.futures => l2'.df = l2.df
            /\ \A idx \in DOMAIN l2.futures :
                  l2'.df[idx] # l2.df[idx] => l2.futures[idx].status # "pending"]_vars

\* Layer 1 in the middle of a batch: the result of the first future is in the
\* dataframe, the second future has resolved and its row is still empty.
C12_Witness ==
    /\ l1.pc = "collect"
    /\ Len(l1.futures) = 2
    /\ l1.next = 2
    /\ NotNa(l1.df[l1.futures[1]]["L1_decision"])
    /\ l1.results[l1.futures[2]].status = "returned"
    /\ ~NotNa(l1.df[l1.futures[2]]["L1_decision"])

\* The dataframe df has the rows of the dataframe `received`, in the same
\* order, with every received column at its received value, and what it has
\* more is among the columns `own`.
FrameKept(received, df, own) ==
    /\ DOMAIN df = DOMAIN received
    /\ \A i \in DOMAIN received :
          /\ DOMAIN received[i] \subseteq DOMAIN df[i]
          /\ DOMAIN df[i] \ DOMAIN received[i] \subseteq own
          /\ \A c \in DOMAIN received[i] : df[i][c] = received[i][c]

RECURSIVE SumOver(_, _, _)
SumOver(records, model, k) ==
    IF records = <<>> THEN 0
    ELSE (IF Head(records).model = model THEN Amount(Head(records), k) ELSE 0)
         + SumOver(Tail(records), model, k)

\* C15 (SpecLogger): no lost update in TokenLogger.log_usage.  Whenever no
\* thread is inside the with block, the logger holds one record for every
\* call that has been made and is not waiting for the lock, and for every
\* model api_calls is the number of its records and input_tokens and
\* output_tokens are the sums over its records.
C15_NoLostUpdate ==
    (\A t \in Threads : tl.threads[t].pc \in {"idle", "lock"}) =>
        LET logger == tl.loggers[1]
            waiting == Cardinality({t \in Threads : tl.threads[t].pc = "lock"})
        IN  /\ Len(logger.records) + waiting = tl.calls
            /\ \A m \in Models :
                  /\ logger.totals[m].api_calls = SumOver(logger.records, m, 3)
                  /\ logger.totals[m].input_tokens = SumOver(logger.records, m, 1)
                  /\ logger.totals[m].output_tokens = SumOver(logger.records, m, 2)

\* Three calls from two threads have returned, one of them made while the
\* other thread held the lock; two of the records are of the same model.
C15_Witness ==
    /\ \A t \in Threads : tl.threads[t].pc = "idle"
    /\ tl.calls = 3
    /\ Len(tl.loggers[1].records) = 3
    /\ tl.loggers[1].totals["gemini-flash-latest"].api_calls = 2
    /\ tl.loggers[1].totals["gemini-flash-latest"].input_tokens = 3
    /\ tl.loggers[1].totals["claude-sonnet-4-5-20250929"].api_calls = 1

\* C16 (SpecSingleton): the global token logger is a singleton.  Between two
\* reset_logger calls all threads that got a logger from get_logger got the
\* same one, it is the global logger, and once every call has returned the
\* global logger (the one that prints the summary) holds a record for every
\* log_usage call made.
C16_SingletonLogger ==
    /\ \A t1, t2 \in Threads :
          (tl.threads[t1].logger # 0 /\ tl.threads[t2].logger # 0) =>
              tl.threads[t1].logger = tl.threads[t2].logger
    /\ \A t \in Threads : tl.threads[t].logger # 0 => tl.threads[t].logger = tl.global
    /\ (tl.global # 0 /\ \A t \in Threads : tl.threads[t].pc = "idle") =>
          Len(tl.loggers[tl.global].records) = tl.calls

\* C17 (SpecL2): in Layer 2 no worker reads the dataframe while the main
\* thread writes results into it.  Once a future of the batch has resolved,
\* and the main thread therefore writes or has written its result, no
\* process_single_record of the batch has its read of the row still to do.
C17_NoReadWhileWriting ==
    l2.pc = "collect" =>
        ~(\E a, b \in DOMAIN l2.futures :
              /\ l2.futures[a].status = "returned"
              /\ l2.futures[b].status = "pending")

\* The batches made so far, one after the other.
RECURSIVE Flatten(_)
Flatten(batches) ==
    IF batches = <<>> THEN <<>> ELSE Head(batches) \o Flatten(Tail(batches))

\* What the loop has to cover: for Layer 1 the rows from the start index to
\* the end of the dataframe, for Layer 2 and the retry the list they walk.
BatchWork ==
    IF bt.prog = "layer1" THEN IndexRange(bt.start_idx, bt.total) ELSE bt.indices

\* C18 (SpecBatch): batches partition the work, in Layer 1, Layer 2 and
\* retry_claude_errors, for every batch size.  The batches made so far, put
\* one after the other, are the beginning of the work in index order (so
\* they are disjoint and none of their records is left out or repeated); no
\* batch is empty or longer than batch_size; a batch shorter than batch_size
\* is the last one; and when the loop is over the batches are the whole work.
C18_BatchesPartitionWork ==
    bt.pc \in {"loop", "done"} =>
        LET done == Flatten(bt.batches)
        IN  /\ Len(done) <= Len(BatchWork)
            /\ done = SubSeq(BatchWork, 1, Len(done))
            /\ \A k \in DOMAIN bt.batches :
                  /\ Len(bt.batches[k]) \in 1..bt.batch_size
                  /\ Len(bt.batches[k]) < bt.batch_size =>
                        (k = Len(bt.batches) /\ done = BatchWork)
            /\ bt.pc = "done" => done = BatchWork

\* Layer 2 resumed at 1 with batch size 2 over four pass rows: a batch of
\* two and a last batch of one.
C18_Witness ==
    /\ bt.pc = "done"
    /\ bt.prog = "layer2"
    /\ bt.start_idx = 1
    /\ bt.batch_size = 2
    /\ Len(bt.batches) = 2
    /\ Len(bt.batches[1]) = 2
    /\ Len(bt.batches[2]) = 1

\* C19 (SpecScreen): exponential backoff in screen_record_layer1.  In a call
\* whose attempts so far all raised an exception, every wait is twice the
\* wait before it, and there is no wait after the last attempt: a call that
\* has returned has waited once less than it has called the API.
C19_Layer1BackoffDoubles ==
    (scr.fn = "layer1" /\ \A k \in DOMAIN scr.hist : scr.hist[k] = "exception") =>
        /\ \A k \in 1..(Len(scr.sleeps) - 1) : scr.sleeps[k + 1] = 2 * scr.sleeps[k]
        /\ (scr.status = "returned" /\ scr.calls > 0) =>
              Len(scr.sleeps) = scr.calls - 1

\* C20 (SpecL1): a record whose title cell in the input CSV is empty or only
\* whitespace is never submitted to a worker, and whenever it has a decision,
\* in memory or on disk, that decision is 'pass' with reasoning 'No title
\* available' and comes from no API verdict.
C20_NoTitleNoApiCall ==
    \A i \in DOMAIN fs1.input :
        (fs1.input[i]["title"] = NaN \/ Strip(fs1.input[i]["title"]) = "") =>
            /\ i \notin DOMAIN l1.results
            /\ \A df \in L1Frames :
                  (i \in DOMAIN df /\ NotNa(df[i]["L1_decision"])) =>
                      /\ df[i]["L1_decision"] = "pass"
                      /\ df[i]["L1_reasoning"] = "No title available"
                      /\ ~NotNa(df[i]["api_verdict"])

\* What a row of the file read at the start of the run was, and is now: every
\* cell it had is the same, and a cell it gained with a new column is empty.
RowKept(old, new) ==
    /\ \A c \in DOMAIN old : c \in DOMAIN new /\ new[c] = old[c]
    /\ \A c \in DOMAIN new \ DOMAIN old : ~NotNa(new[c])

RetryErrorRows == {i \in DOMAIN rt.loaded : NotNa(rt.loaded[i]["L2_sonnet_error"])}
RetryOwnColumns ==
    L2ResultColumns("L2_sonnet") \cup {"L2_sonnet_thinking", "L2_models_agree"}

\* C21 (SpecRetry): retry_claude_errors calls Claude only for rows whose
\* L2_sonnet_error is non-null in the file it read, and a finished run has
\* called it for each of them.  A row that was not retried, or whose retry
\* returned an error, is as it was read.  A row whose retry succeeded has the
\* new result in its L2_sonnet_* columns, an empty L2_sonnet_error,
\* L2_models_agree saying whether the stored Gemini Pro decision equals the new
\* decision, and its other cells as read; in the file a finished run leaves,
\* the rows with a Claude error are exactly those whose retry failed.
C21_RetryFrame ==
    rt.pc \in {"loop", "done"} =>
        /\ DOMAIN rt.results \subseteq RetryErrorRows
        /\ rt.pc = "done" => DOMAIN rt.results = RetryErrorRows
        /\ \A i \in DOMAIN rt.df :
              IF i \notin DOMAIN rt.results \/ rt.results[i].error # None
              THEN RowKept(rt.loaded[i], rt.df[i])
              ELSE LET sonnet_flat == flatten_result(rt.results[i], "L2_sonnet")
                   IN  /\ \A c \in DOMAIN sonnet_flat : rt.df[i][c] = sonnet_flat[c]
                       /\ ~NotNa(rt.df[i]["L2_sonnet_error"])
                       /\ rt.df[i]["L2_models_agree"] =
                              PyBool(rt.loaded[i]["L2_pro_decision"] = rt.results[i].decision)
                       /\ \A c \in DOMAIN rt.loaded[i] \ RetryOwnColumns :
                              rt.df[i][c] = rt.loaded[i][c]
        /\ rt.pc = "done" =>
              /\ rt.file.df = CsvRoundTrip(rt.df)
              /\ \A i \in DOMAIN rt.file.df :
                    NotNa(rt.file.df[i]["L2_sonnet_error"])
                        <=> (i \in DOMAIN rt.results /\ rt.results[i].error # None)

\* A finished run on a file with two Claude errors: one retry gave a decision
\* that differs from the fallback's, the other failed again.
C21_Witness ==
    /\ rt.pc = "done"
    /\ \E i, j \in DOMAIN rt.results :
          /\ rt.results[i].error = None
          /\ rt.results[i].decision = "exclude"
          /\ rt.loaded[i]["L2_sonnet_decision"] = "include"
          /\ rt.file.df[i]["L2_sonnet_decision"] = "exclude"
          /\ rt.results[j].error # None
          /\ rt.file.df[j] = rt.loaded[j] @@ [L2_sonnet_thinking |-> NaN]

\* C22 (SpecRetry): in layer2_results.csv, as process_layer2 wrote it and
\* after any number of retry_claude_errors runs, every record with Layer 2
\* results has needs_human_review False exactly when its stored
\* L2_pro_decision and L2_sonnet_decision are both 'exclude'.
C22_ReviewFlagConsistent ==
    \A i \in DOMAIN rt.file.df :
        NotNa(rt.file.df[i]["L2_pro_decision"]) =>
            (rt.file.df[i]["needs_human_review"] = "False"
                <=> (rt.file.df[i]["L2_pro_decision"] = "exclude"
                     /\ rt.file.df[i]["L2_sonnet_decision"] = "exclude"))

\* C23 (SpecMerge): a record that passed Layer 1 and for which a model decided
\* 'include', or for which a Layer 2 decision the merge reads is missing (an
\* empty cell, or a column the input does not have), never gets auto_decision
\* 'exclude': it is merged as 'include' or 'uncertain' with review_priority
\* 'high'.
C23_NoAutoExcludeWithoutBothExcludes ==
    mg.pc = "done" =>
        \A i \in DOMAIN mg.out :
            LET pro == RowGet(mg.df[i], "L2_pro_decision")
                opus == RowGet(mg.df[i], "L2_opus_decision")
            IN  (/\ mg.df[i]["L1_decision"] = "pass"
                 /\ \/ pro = "include"
                    \/ opus = "include"
                    \/ ~NotNa(pro)
                    \/ ~NotNa(opus))
                => /\ mg.out[i]["auto_decision"] \in {"include", "uncertain"}
                   /\ mg.out[i]["review_priority"] = "high"

\* The record_ids of the rows of a dataframe.
RecordIds(df) == {df[k]["record_id"] : k \in DOMAIN df}

\* The priorities of the merged rows: 'high' exactly with auto_decision
\* 'include' or 'uncertain', 'low' exactly for a record not excluded at Layer 1
\* with auto_decision 'exclude', 'none' exactly for a record excluded at
\* Layer 1.
PrioritiesFollowDecisions ==
    \A i \in DOMAIN mg.out :
        LET row == mg.out[i]
            excluded_l1 == row["L1_decision"] = "exclude"
        IN  /\ row["review_priority"] = "high"
                  <=> row["auto_decision"] \in {"include", "uncertain"}
            /\ row["review_priority"] = "low"
                  <=> (~excluded_l1 /\ row["auto_decision"] = "exclude")
            /\ row["review_priority"] = "none" <=> excluded_l1

\* C24 (SpecMerge): once the merge has run, the priorities of the merged rows
\* follow their decisions as above, and the high-priority review file holds
\* exactly the records with review_priority 'high', none of them excluded at
\* Layer 1.
C24_HighPriorityExported ==
    mg.pc = "done" =>
        /\ PrioritiesFollowDecisions
        /\ RecordIds(mg.high.df) =
              {mg.out[i]["record_id"] :
                  i \in {j \in DOMAIN mg.out : mg.out[j]["review_priority"] = "high"}}
        /\ \A k \in DOMAIN mg.high.df : mg.high.df[k]["L1_decision"] # "exclude"

\* C25 (SpecMerge): the low-priority sample file holds as many records as the
\* summary announces for spot-checking, which is the floor of a tenth of the
\* number of records that passed Layer 1 and that both models excluded.
C25_SampleMatchesSummary ==
    (mg.pc = "done" /\ mg.summary.written) =>
        LET both_exclude ==
                {i \in DOMAIN mg.out :
                    /\ mg.out[i]["L1_decision"] = "pass"
                    /\ RowGet(mg.out[i], "L2_pro_decision") = "exclude"
                    /\ RowGet(mg.out[i], "L2_opus_decision") = "exclude"}
        IN  /\ mg.summary.low_priority = Cardinality(both_exclude) \div 10
            /\ Len(mg.low_sample.df) = mg.summary.low_priority

====
